---- MODULE Spec2Model ----
(***************************************************************************)
(* A model of the forecasting back end:                                    *)
(*   backend/app/utils/forecasting.py  normalize_columns, calculate_metrics,*)
(*                                     detect_anomalies, generate_forecast, *)
(*                                     generate_insights                    *)
(*   backend/app/routes/forecast.py    get_forecast, get_forecast_report    *)
(*   backend/app/utils/reporting.py    generate_pdf_report                  *)
(*                                                                         *)
(* Data frames are column-major: columns (names in original order), index   *)
(* (row labels) and data (one sequence of cells per column).  A cell is a   *)
(* pair <<kind, value>>:                                                    *)
(*   <<"num", v>>   a number                                                *)
(*   <<"str", v>>   a string that spells the number v                       *)
(*   <<"txt", k>>   a string that is neither a number nor a date            *)
(*   <<"date", d>>  a string that spells day d                              *)
(*   <<"nan", 0>>   a missing value (NaN)                                   *)
(* Floating point values are modelled by exact extended rationals (see      *)
(* the arithmetic section): rounding error is not modelled, the IEEE        *)
(* special values inf and nan are.                                          *)
(***************************************************************************)
EXTENDS Integers, Sequences, FiniteSets, TLC

VARIABLES
    \* normalize_columns on its own
    df, out, out2, nphase,
    \* detect_anomalies and generate_insights on their own
    actuals, forecast, anomalies, insights, aphase,
    \* calculate_metrics on its own
    y_true, y_pred, metrics, mphase,
    \* the service: two requests on one event loop and the data directory
    req,        \* each request's route, file name, uploaded bytes and days
    pc,         \* each request's position in its handler
    loop,       \* the request the event loop is running, 0 when it is free
    fs,         \* the files of the data directory
    local_df,   \* each handler's local df
    fitted,     \* the frame each request handed to Prophet.fit
    analysis,   \* each request's forecast, anomalies, metrics and insights
    log,        \* the calls each request has made, in order
    response    \* each request's HTTP response

nvars == <<df, out, out2, nphase>>

avars == <<actuals, forecast, anomalies, insights, aphase>>

mvars == <<y_true, y_pred, metrics, mphase>>

svars == <<req, pc, loop, fs, local_df, fitted, analysis, log, response>>

vars == <<nvars, avars, mvars, svars>>

\* What each part leaves alone.
not_n == <<avars, mvars, svars>>

not_a == <<nvars, mvars, svars>>

not_m == <<nvars, avars, svars>>

not_s == <<nvars, avars, mvars>>

(***************************************************************************)
(* Bounds of the model                                                     *)
(***************************************************************************)
MaxCols == 3
MaxRows == 2
MaxT == 2
MaxN == 3

(***************************************************************************)
(* Cells and data frames                                                   *)
(***************************************************************************)
NaN == <<"nan", 0>>

Range(s) == {s[i] : i \in DOMAIN s}

Min(S) == CHOOSE x \in S : \A y \in S : x <= y

\* The rows of column cells `c` at the positions `keep` (ascending).
RECURSIVE TakeRows(_, _, _)
TakeRows(c, keep, i) ==
    IF i > Len(c) THEN <<>>
    ELSE (IF i \in keep THEN <<c[i]>> ELSE <<>>) \o TakeRows(c, keep, i + 1)

\* str.lower() on the column names of the model.
Lower(name) ==
    CASE name = "Y" -> "y"
      [] name = "Time" -> "time"
      [] name = "Value" -> "value"
      [] name = "Sales" -> "sales"
      [] OTHER -> name

\* A column's dtype is numeric when read_csv found only numbers and blanks in
\* it; a frame without rows has object columns only.
IsNumericDtype(cells) ==
    /\ Len(cells) > 0
    /\ \A i \in DOMAIN cells : cells[i][1] \in {"num", "nan"}

\* pd.to_numeric(errors='coerce') on one value.
to_numeric(cell) ==
    CASE cell[1] = "num" -> cell
      [] cell[1] = "str" -> <<"num", cell[2]>>
      [] OTHER -> NaN

ColIndex(frame, name) ==
    CHOOSE i \in DOMAIN frame.columns : frame.columns[i] = name

Column(frame, name) == frame.data[ColIndex(frame, name)]

NRows(frame) == Len(frame.index)

(***************************************************************************)
(* Floating point values: [k, n, d] is the rational n/d (k = "fin", d > 0), *)
(* an infinity of sign n (k = "inf") or NaN (k = "nan").  Comparisons with  *)
(* NaN are false, as in IEEE 754.                                           *)
(***************************************************************************)
Abs(x) == IF x < 0 THEN -x ELSE x

Fin(n) == [k |-> "fin", n |-> n, d |-> 1]

FNaN == [k |-> "nan", n |-> 0, d |-> 0]

FInf(sign) == [k |-> "inf", n |-> sign, d |-> 0]

\* a / b for finite integers a and b, numpy semantics (no exception).
FDiv(a, b) ==
    IF b = 0
    THEN (IF a = 0 THEN FNaN ELSE IF a > 0 THEN FInf(1) ELSE FInf(-1))
    ELSE [k |-> "fin", n |-> IF b > 0 THEN a ELSE -a, d |-> Abs(b)]

\* x * c for an integer c > 0.
FMul(x, c) == IF x.k = "fin" THEN [x EXCEPT !.n = x.n * c] ELSE x

FAbs(x) == IF x.k = "nan" THEN x ELSE [x EXCEPT !.n = Abs(x.n)]

\* x > c and x < c for an integer c.
FGt(x, c) ==
    CASE x.k = "nan" -> FALSE
      [] x.k = "inf" -> x.n > 0
      [] OTHER -> x.n > c * x.d

FGe(x, c) ==
    CASE x.k = "nan" -> FALSE
      [] x.k = "inf" -> x.n > 0
      [] OTHER -> x.n >= c * x.d

FLt(x, c) ==
    CASE x.k = "nan" -> FALSE
      [] x.k = "inf" -> x.n < 0
      [] OTHER -> x.n < c * x.d

(***************************************************************************)
(* normalize_columns                                                       *)
(***************************************************************************)
DateNames == {"date", "ds", "timestamp", "time"}

common_names == {"value", "sales", "revenue", "quantity", "amount", "close", "price"}

NoCol == ""

\* The first column of `cols`, in order, that satisfies membership of its
\* lower-cased name in `names`; NoCol when there is none.
FirstLowerIn(cols, names) ==
    LET hits == {i \in DOMAIN cols : Lower(cols[i]) \in names}
    IN  IF hits = {} THEN NoCol ELSE cols[Min(hits)]

\* date_col_of without the 'ds' spellings.
date_col_of_no_ds(frame) ==
    FirstLowerIn(frame.columns, {"date", "timestamp", "time"})

\* 1. Detect Date Column
date_col_of(frame) ==
    IF "ds" \in Range(frame.columns) THEN "ds"
    ELSE FirstLowerIn(frame.columns, DateNames)

potential_targets(frame, date_col) ==
    SelectSeq(frame.columns, LAMBDA c : c # date_col)

\* The first numeric-typed column among `cols`.
FirstNumeric(frame, cols) ==
    LET hits == {i \in DOMAIN cols : IsNumericDtype(Column(frame, cols[i]))}
    IN  IF hits = {} THEN NoCol ELSE cols[Min(hits)]

\* target_col_of with the common names tried before the lower-cased y.
target_col_of_common_first(frame, date_col) ==
    IF "y" \in Range(frame.columns) THEN "y"
    ELSE LET pt == potential_targets(frame, date_col)
             exact == FirstLowerIn(pt, {"y"})
             common == FirstLowerIn(pt, common_names)
         IN  IF common # NoCol THEN common
             ELSE IF exact # NoCol THEN exact
             ELSE FirstNumeric(frame, pt)

\* 2. Detect Target Column
target_col_of(frame, date_col) ==
    IF "y" \in Range(frame.columns) THEN "y"
    ELSE LET pt == potential_targets(frame, date_col)
             exact == FirstLowerIn(pt, {"y"})
             common == FirstLowerIn(pt, common_names)
         IN  IF exact # NoCol THEN exact
             ELSE IF common # NoCol THEN common
             ELSE FirstNumeric(frame, pt)

NoFrame == [columns |-> <<>>, index |-> <<>>, data |-> <<>>]

\* rename_and_filter without the dropna.
rename_and_filter_no_dropna(frame, date_col, target_col) ==
    [columns |-> <<"ds", "y">>,
     index |-> frame.index,
     data |-> <<Column(frame, date_col),
                [i \in DOMAIN frame.index |->
                    to_numeric(Column(frame, target_col)[i])]>>]

\* 3. Rename and Filter: to_numeric on y, dropna(subset=['y']), df[['ds','y']]
rename_and_filter(frame, date_col, target_col) ==
    LET ds == Column(frame, date_col)
        y == [i \in DOMAIN frame.index |-> to_numeric(Column(frame, target_col)[i])]
        keep == {i \in DOMAIN frame.index : y[i] # NaN}
    IN  [columns |-> <<"ds", "y">>,
         index |-> TakeRows(frame.index, keep, 1),
         data |-> <<TakeRows(ds, keep, 1), TakeRows(y, keep, 1)>>]

\* The result is the frame returned, or the ValueError raised; date_col and
\* target_col are the function's locals when it left.
normalize_columns(frame) ==
    LET date_col == date_col_of(frame)
        target_col == IF date_col = NoCol THEN NoCol
                      ELSE target_col_of(frame, date_col)
    IN  IF date_col = NoCol
        THEN [ok |-> FALSE, error |-> "no date column", df |-> NoFrame,
              date_col |-> NoCol, target_col |-> NoCol]
        ELSE IF target_col = NoCol
        THEN [ok |-> FALSE, error |-> "no target column", df |-> NoFrame,
              date_col |-> date_col, target_col |-> NoCol]
        ELSE [ok |-> TRUE, error |-> "",
              df |-> rename_and_filter(frame, date_col, target_col),
              date_col |-> date_col, target_col |-> target_col]

(***************************************************************************)
(* Input frames of normalize_columns: what read_csv can hand it.  Column    *)
(* names are distinct (read_csv renames repeated headers).  Every column   *)
(* holds one of a few contents, laid out over the rows of the frame.       *)
(***************************************************************************)
Names == {"ds", "date", "Time", "y", "Y", "sales", "Value", "units"}

ColumnKinds == {"int", "gap", "mixed"}

\* Row i of a column of the given kind.
KindCell(kind, i) ==
    CASE kind = "int" -> <<"num", i>>
      [] kind = "gap" -> IF i = 1 THEN NaN ELSE <<"num", 10 + i>>
      [] kind = "mixed" -> IF i % 2 = 1 THEN <<"txt", i>> ELSE <<"str", 20 + i>>

Headers ==
    {h \in UNION {[1..k -> Names] : k \in 1..MaxCols} :
        \A i, j \in DOMAIN h : i # j => h[i] # h[j]}

Frame(h, n, k) ==
    [columns |-> h,
     index |-> [i \in 1..n |-> i - 1],
     data |-> [c \in DOMAIN h |-> [i \in 1..n |-> KindCell(k[c], i)]]]

NoResult ==
    [ok |-> FALSE, error |-> "not run", df |-> NoFrame,
     date_col |-> NoCol, target_col |-> NoCol]

NIdle ==
    /\ df = NoFrame
    /\ out = NoResult
    /\ out2 = NoResult
    /\ nphase = "idle"

NInit ==
    /\ \E h \in Headers, n \in 0..MaxRows :
          \E k \in [DOMAIN h -> ColumnKinds] : df = Frame(h, n, k)
    /\ out = NoResult
    /\ out2 = NoResult
    /\ nphase = "input"

Normalize ==
    /\ nphase = "input"
    /\ out' = normalize_columns(df)
    /\ nphase' = "normalized"
    /\ UNCHANGED <<df, out2, not_n>>

NormalizeAgain ==
    /\ nphase = "normalized"
    /\ out.ok
    /\ out2' = normalize_columns(out.df)
    /\ nphase' = "renormalized"
    /\ UNCHANGED <<df, out, not_n>>

NNext == Normalize \/ NormalizeAgain

(***************************************************************************)
(* detect_anomalies                                                        *)
(* forecast rows are [ds, yhat, yhat_lower, yhat_upper], actuals rows are   *)
(* [ds, y]; the values are finite numbers.                                  *)
(***************************************************************************)
AnomalyColumns ==
    <<"ds", "y", "yhat", "yhat_lower", "yhat_upper", "severity", "severity_level">>

\* classify_severity with the thresholds included in the higher level.
classify_severity_inclusive(pct) ==
    IF FGe(pct, 20) THEN "High"
    ELSE IF FGe(pct, 10) THEN "Medium"
    ELSE "Low"

classify_severity(pct) ==
    IF FGt(pct, 20) THEN "High"
    ELSE IF FGt(pct, 10) THEN "Medium"
    ELSE "Low"

\* pd.merge(actuals, forecast, on='ds', how='inner'): the pairs with equal ds,
\* in the order of the left frame, then of the right frame.
RECURSIVE MergeOne(_, _, _)
MergeOne(a, fc, j) ==
    IF j > Len(fc) THEN <<>>
    ELSE (IF fc[j].ds = a.ds
          THEN <<[ds |-> a.ds, y |-> a.y, yhat |-> fc[j].yhat,
                  yhat_lower |-> fc[j].yhat_lower, yhat_upper |-> fc[j].yhat_upper]>>
          ELSE <<>>) \o MergeOne(a, fc, j + 1)

RECURSIVE Merge(_, _, _)
Merge(act, fc, i) ==
    IF i > Len(act) THEN <<>>
    ELSE MergeOne(act[i], fc, 1) \o Merge(act, fc, i + 1)

\* is_anomaly with inclusive comparisons.
is_anomaly_inclusive(m) == (m.y <= m.yhat_lower) \/ (m.y >= m.yhat_upper)

\* merged['is_anomaly']: the actual lies strictly outside the interval.
is_anomaly(m) == (m.y < m.yhat_lower) \/ (m.y > m.yhat_upper)

severity_pct(m) == FMul(FDiv(Abs(m.y - m.yhat), m.yhat), 100)

AnomalyRow(m) ==
    [ds |-> m.ds, y |-> m.y, yhat |-> m.yhat,
     yhat_lower |-> m.yhat_lower, yhat_upper |-> m.yhat_upper,
     severity |-> Abs(m.y - m.yhat),
     severity_level |-> classify_severity(severity_pct(m))]

\* detect_anomalies that forgets the lower bound.
detect_anomalies_upper_only(fc, act) ==
    LET flagged == SelectSeq(Merge(act, fc, 1), LAMBDA m : m.y > m.yhat_upper)
    IN  [columns |-> AnomalyColumns,
         rows |-> [i \in DOMAIN flagged |-> AnomalyRow(flagged[i])]]

detect_anomalies(fc, act) ==
    LET merged == Merge(act, fc, 1)
        flagged == SelectSeq(merged, is_anomaly)
    IN  IF flagged = <<>>
        THEN [columns |-> AnomalyColumns, rows |-> <<>>]
        ELSE [columns |-> AnomalyColumns,
              rows |-> [i \in DOMAIN flagged |-> AnomalyRow(flagged[i])]]

(***************************************************************************)
(* generate_insights                                                       *)
(* An insight or recommendation is the text's rule (kind) and the values    *)
(* the text is built from; the rendering of numbers is left out.            *)
(***************************************************************************)
Insight(kind, intensity, direction, ds, count) ==
    [kind |-> kind, intensity |-> intensity, direction |-> direction,
     ds |-> ds, count |-> count]

Recommendation(kind, ds) == [kind |-> kind, ds |-> ds]

Last(s) == s[Len(s)]

MaxOf(S) == CHOOSE x \in S : \A y \in S : y <= x

\* 1. Trend Analysis
TrendPart(fc, history) ==
    LET current_val == Last(history).y
        future_val == Last(fc).yhat
        trend_pct == FMul(FDiv(future_val - current_val, current_val), 100)
        direction == IF FGt(trend_pct, 0) THEN "growth" ELSE "decline"
        intensity == IF FGt(FAbs(trend_pct), 10) THEN "Significant"
                     ELSE IF FGt(FAbs(trend_pct), 3) THEN "Moderate"
                     ELSE "Minimal"
    IN  [insights |-> <<Insight("trend", intensity, direction, 0, 0)>>,
         recommendations |->
            IF direction = "growth"
            THEN (IF FGt(FAbs(trend_pct), 10)
                  THEN <<Recommendation("Scale Operations", 0)>>
                  ELSE <<Recommendation("Monitor Steady Growth", 0)>>)
            ELSE <<Recommendation("Cost Optimization", 0)>>]

\* 2. Key Milestones: the first row with the largest yhat among the forecast
\* rows after the last historical date.
PeakPart(fc, history) ==
    LET last_ds == MaxOf({history[i].ds : i \in DOMAIN history})
        future_forecast == SelectSeq(fc, LAMBDA r : r.ds > last_ds)
    IN  IF future_forecast = <<>>
        THEN [insights |-> <<>>, recommendations |-> <<>>]
        ELSE LET top == MaxOf({future_forecast[i].yhat : i \in DOMAIN future_forecast})
                 peak_idx == Min({i \in DOMAIN future_forecast :
                                     future_forecast[i].yhat = top})
                 peak_time == future_forecast[peak_idx].ds
             IN  [insights |-> <<Insight("peak", "", "", peak_time, top)>>,
                  recommendations |-> <<Recommendation("Peak Readiness", peak_time)>>]

\* 3. Anomaly & Volatility Summary
AnomalyPart(anoms) ==
    IF anoms.rows # <<>>
    THEN LET high_severity == SelectSeq(anoms.rows, LAMBDA a : a.severity_level = "High")
         IN  [insights |->
                 (IF high_severity # <<>>
                  THEN <<Insight("critical_volatility", "", "", 0, Len(high_severity))>>
                  ELSE <<>>)
                 \o <<Insight("statistical_stability", "", "", 0, Len(anoms.rows))>>,
              recommendations |->
                 IF high_severity # <<>>
                 THEN <<Recommendation("Risk Mitigation", 0)>>
                 ELSE <<>>]
    ELSE [insights |-> <<Insight("operational_stability", "", "", 0, 0)>>,
          recommendations |-> <<>>]

\* 4. Confidence Interval
ConfidencePart(fc) ==
    LET last_point == Last(fc)
        spread == FMul(FDiv(last_point.yhat_upper - last_point.yhat_lower,
                            last_point.yhat), 100)
    IN  IF FLt(spread, 15)
        THEN [insights |-> <<Insight("high_confidence", "", "", 0, 0)>>,
              recommendations |-> <<>>]
        ELSE [insights |-> <<Insight("variable_forecast", "", "", 0, 0)>>,
              recommendations |-> <<Recommendation("Data Refinement", 0)>>]

NoInsights == [ok |-> FALSE, insights |-> <<>>, recommendations |-> <<>>]

\* generate_insights with the anomaly summary emitted before the peak.
generate_insights_anomaly_first(fc, anoms, history) ==
    IF history = <<>> \/ fc = <<>>
    THEN NoInsights
    ELSE LET t == TrendPart(fc, history)
             p == PeakPart(fc, history)
             a == AnomalyPart(anoms)
             c == ConfidencePart(fc)
         IN  [ok |-> TRUE,
              insights |-> t.insights \o a.insights \o p.insights \o c.insights,
              recommendations |-> t.recommendations \o a.recommendations
                                  \o p.recommendations \o c.recommendations]

\* iloc[-1] of an empty history or forecast raises IndexError: ok is FALSE.
generate_insights(fc, anoms, history) ==
    IF history = <<>> \/ fc = <<>>
    THEN NoInsights
    ELSE LET t == TrendPart(fc, history)
             p == PeakPart(fc, history)
             a == AnomalyPart(anoms)
             c == ConfidencePart(fc)
         IN  [ok |-> TRUE,
              insights |-> t.insights \o p.insights \o a.insights \o c.insights,
              recommendations |-> t.recommendations \o p.recommendations
                                  \o a.recommendations \o c.recommendations]

(***************************************************************************)
(* Inputs of detect_anomalies and generate_insights: at each of the dates   *)
(* 1..MaxT there is a historical value, a forecast row, or both.            *)
(***************************************************************************)
ActualValues == {0, 15, 20, 21, 22, 23, 24, 25}

Estimates == {0, 20}

Intervals == {<<20, 20>>, <<18, 22>>, <<21, 30>>}

\* A negative estimate comes with an interval around it.
NegativeEstimates == {-20}

NegativeIntervals == {<<-22, -18>>}

Slots ==
    [has_y : {TRUE}, has_fc : {TRUE}, y : ActualValues, yhat : Estimates, iv : Intervals]
    \cup [has_y : {TRUE}, has_fc : {TRUE}, y : ActualValues,
          yhat : NegativeEstimates, iv : NegativeIntervals]
    \cup [has_y : {TRUE}, has_fc : {FALSE}, y : ActualValues, yhat : {0}, iv : {<<0, 0>>}]
    \cup [has_y : {FALSE}, has_fc : {TRUE}, y : {0}, yhat : Estimates, iv : Intervals]
    \cup [has_y : {FALSE}, has_fc : {TRUE}, y : {0},
          yhat : NegativeEstimates, iv : NegativeIntervals]

RECURSIVE ActualsOf(_, _)
ActualsOf(slot, t) ==
    IF t > MaxT THEN <<>>
    ELSE (IF slot[t].has_y THEN <<[ds |-> t, y |-> slot[t].y]>> ELSE <<>>)
         \o ActualsOf(slot, t + 1)

RECURSIVE ForecastOf(_, _)
ForecastOf(slot, t) ==
    IF t > MaxT THEN <<>>
    ELSE (IF slot[t].has_fc
          THEN <<[ds |-> t, yhat |-> slot[t].yhat,
                  yhat_lower |-> slot[t].iv[1], yhat_upper |-> slot[t].iv[2]]>>
          ELSE <<>>)
         \o ForecastOf(slot, t + 1)

NoAnomalies == [columns |-> <<>>, rows |-> <<>>]

AIdle ==
    /\ actuals = <<>>
    /\ forecast = <<>>
    /\ anomalies = NoAnomalies
    /\ insights = NoInsights
    /\ aphase = "idle"

AInit ==
    /\ \E slot \in [1..MaxT -> Slots] :
          /\ actuals = ActualsOf(slot, 1)
          /\ forecast = ForecastOf(slot, 1)
    /\ anomalies = NoAnomalies
    /\ insights = NoInsights
    /\ aphase = "input"

DetectAnomalies ==
    /\ aphase = "input"
    /\ anomalies' = detect_anomalies(forecast, actuals)
    /\ aphase' = "detected"
    /\ UNCHANGED <<actuals, forecast, insights, not_a>>

GenerateInsights ==
    /\ aphase = "detected"
    /\ insights' = generate_insights(forecast, anomalies, actuals)
    /\ aphase' = "reported"
    /\ UNCHANGED <<actuals, forecast, anomalies, not_a>>

ANext == DetectAnomalies \/ GenerateInsights

(***************************************************************************)
(* calculate_metrics                                                       *)
(* y_true and y_pred are arrays of cells <<"num", v>> or NaN of one length. *)
(* A metric is a floating point value; a rounded one has the power of ten   *)
(* of its rounding as denominator.  RMSE is carried as the mean of the      *)
(* squared errors it is the root of (sqrtOf), the root and its rounding to  *)
(* 4 places are not computed.                                               *)
(***************************************************************************)
\* Python's round to `places` decimals of num/den >= 0, ties to even.
Round(num, den, scale) ==
    LET q == (num * scale) \div den
        r == (num * scale) % den
        up == (2 * r > den) \/ (2 * r = den /\ q % 2 = 1)
    IN  [k |-> "fin", n |-> IF up THEN q + 1 ELSE q, d |-> scale]

Zero == [k |-> "fin", n |-> 0, d |-> 1]

\* x + y for values that are not negative.
FAdd(x, y) ==
    CASE x.k = "nan" \/ y.k = "nan" -> FNaN
      [] x.k = "inf" \/ y.k = "inf" -> FInf(1)
      [] OTHER -> [k |-> "fin", n |-> x.n * y.d + y.n * x.d, d |-> x.d * y.d]

RECURSIVE FSum(_, _)
FSum(terms, i) ==
    IF i > Len(terms) THEN Zero ELSE FAdd(terms[i], FSum(terms, i + 1))

\* mask = ~isnan(y_true) & ~isnan(y_pred)
Mask(yt, yp) == {i \in DOMAIN yt : yt[i] # NaN /\ yp[i] # NaN}

ZeroMetrics == [MAE |-> Zero, RMSE |-> [sqrtOf |-> Zero], MAPE |-> Zero]

\* np.mean of values that are not negative.
FMean(terms) ==
    LET total == FSum(terms, 1)
    IN  IF total.k = "fin" THEN [total EXCEPT !.d = total.d * Len(terms)] ELSE total

\* round(value, places), scale = 10^places; inf and nan round to themselves.
FRound(x, scale) == IF x.k = "fin" THEN Round(x.n, x.d, scale) ELSE x

\* calculate_metrics that resets an infinite MAPE only.
calculate_metrics_isinf_only(yt, yp) ==
    LET mask == Mask(yt, yp)
        t == TakeRows(yt, mask, 1)
        p == TakeRows(yp, mask, 1)
        mape == FMul(FMean([i \in DOMAIN t |-> FAbs(FDiv(t[i][2] - p[i][2], t[i][2]))]), 100)
    IN  IF Len(t) = 0 THEN ZeroMetrics
        ELSE [MAE |-> FRound(FMean([i \in DOMAIN t |-> Fin(Abs(t[i][2] - p[i][2]))]), 10000),
              RMSE |-> [sqrtOf |->
                  FMean([i \in DOMAIN t |-> Fin((t[i][2] - p[i][2]) * (t[i][2] - p[i][2]))])],
              MAPE |-> FRound(IF mape.k = "inf" THEN Zero ELSE mape, 100)]

calculate_metrics(yt, yp) ==
    LET mask == Mask(yt, yp)
        t == TakeRows(yt, mask, 1)
        p == TakeRows(yp, mask, 1)
        mae == FMean([i \in DOMAIN t |-> Fin(Abs(t[i][2] - p[i][2]))])
        mse == FMean([i \in DOMAIN t |-> Fin((t[i][2] - p[i][2]) * (t[i][2] - p[i][2]))])
        mape == FMul(FMean([i \in DOMAIN t |-> FAbs(FDiv(t[i][2] - p[i][2], t[i][2]))]), 100)
    IN  IF Len(t) = 0 THEN ZeroMetrics
        ELSE [MAE |-> FRound(mae, 10000),
              RMSE |-> [sqrtOf |-> mse],
              MAPE |-> FRound(IF mape.k \in {"inf", "nan"} THEN Zero ELSE mape, 100)]

TrueValues == {NaN, <<"num", 0>>, <<"num", 2>>, <<"num", 4>>}

PredValues == {NaN, <<"num", 0>>, <<"num", 1>>, <<"num", 4>>}

MIdle ==
    /\ y_true = <<>>
    /\ y_pred = <<>>
    /\ metrics = ZeroMetrics
    /\ mphase = "idle"

MInit ==
    /\ \E n \in 0..MaxN :
          /\ y_true \in [1..n -> TrueValues]
          /\ y_pred \in [1..n -> PredValues]
    /\ metrics = ZeroMetrics
    /\ mphase = "input"

CalculateMetrics ==
    /\ mphase = "input"
    /\ metrics' = calculate_metrics(y_true, y_pred)
    /\ mphase' = "calculated"
    /\ UNCHANGED <<y_true, y_pred, not_m>>

MNext == CalculateMetrics

(***************************************************************************)
(* Files and pandas I/O                                                    *)
(* A CSV file is its header line and its data lines, each a sequence of     *)
(* fields; a field is a cell: <<"num", v>> the text of a number, <<"nan",   *)
(* 0>> an empty field, <<"date", d>> and <<"txt", k>> as in a frame.  A     *)
(* file of zero bytes has no header.                                        *)
(***************************************************************************)
NoFile == [exists |-> FALSE, header |-> <<>>, rows |-> <<>>]

EmptyFile == [exists |-> TRUE, header |-> <<>>, rows |-> <<>>]

\* read_csv's type inference for one column: numbers and blanks only give a
\* numeric column, anything else leaves every field a string.
ReadColumn(fields) ==
    IF IsNumericDtype(fields) THEN fields
    ELSE [i \in DOMAIN fields |->
            IF fields[i][1] = "num" THEN <<"str", fields[i][2]>> ELSE fields[i]]

\* pd.read_csv of a file
read_csv(file) ==
    IF ~file.exists THEN [ok |-> FALSE, error |-> "FileNotFoundError", df |-> NoFrame]
    ELSE IF file.header = <<>>
    THEN [ok |-> FALSE, error |-> "EmptyDataError", df |-> NoFrame]
    ELSE IF \E i \in DOMAIN file.rows : Len(file.rows[i]) # Len(file.header)
    THEN [ok |-> FALSE, error |-> "ParserError", df |-> NoFrame]
    ELSE [ok |-> TRUE, error |-> "",
          df |-> [columns |-> file.header,
                  index |-> [i \in DOMAIN file.rows |-> i - 1],
                  data |-> [c \in DOMAIN file.header |->
                              ReadColumn([i \in DOMAIN file.rows |-> file.rows[i][c]])]]]

\* The text to_csv writes for a value.
Field(cell) ==
    CASE cell[1] = "str" -> <<"num", cell[2]>>
      [] cell[1] = "ts" -> <<"date", cell[2]>>
      [] cell[1] = "nat" -> NaN
      [] OTHER -> cell

\* df.to_csv(path, index=False): the file it leaves at path.
to_csv(f) ==
    [exists |-> TRUE,
     header |-> f.columns,
     rows |-> [i \in DOMAIN f.index |-> [c \in DOMAIN f.columns |-> Field(f.data[c][i])]]]

\* f.write(bytes) and close on a handle that open(path, "wb") left at offset
\* 0: the bytes replace the start of whatever the file holds by now, and what
\* lies beyond them stays.  Lines are taken to be of one width, so that whole
\* lines are replaced.
WriteAtStart(old, bytes) ==
    IF bytes.header = <<>> THEN [old EXCEPT !.exists = TRUE]
    ELSE [exists |-> TRUE,
          header |-> bytes.header,
          rows |-> bytes.rows \o SubSeq(old.rows, Len(bytes.rows) + 1, Len(old.rows))]

\* pd.to_datetime(df['ds']) with errors coerced to NaT.
to_datetime_coerce(f) ==
    [ok |-> TRUE,
     df |-> [f EXCEPT !.data[ColIndex(f, "ds")] =
                [i \in DOMAIN f.index |->
                    LET c == Column(f, "ds")[i]
                    IN  IF c[1] \in {"date", "num", "ts"} THEN <<"ts", c[2]>>
                        ELSE <<"nat", 0>>]]]

\* df['ds'] = pd.to_datetime(df['ds']): a date string or a number becomes a
\* timestamp, a missing value NaT, any other string raises.  (How pandas
\* reads a bare number string as a date depends on its version; no upload of
\* the model has one in its date column.)
to_datetime(f) ==
    LET ds == Column(f, "ds")
    IN  IF \E i \in DOMAIN ds : ds[i][1] \in {"txt", "str"}
        THEN [ok |-> FALSE, df |-> f]
        ELSE [ok |-> TRUE,
              df |-> [f EXCEPT !.data[ColIndex(f, "ds")] =
                         [i \in DOMAIN f.index |->
                             IF ds[i][1] = "nan" THEN <<"nat", 0>>
                             ELSE <<"ts", ds[i][2]>>]]]

(***************************************************************************)
(* Prophet, an opaque model: fit may raise, and always does on fewer than   *)
(* two rows or a NaT date; predict returns a row for every historical date  *)
(* and `days` more, with estimates on the history ("close") or off it       *)
(* ("off").                                                                 *)
(***************************************************************************)
FitMustRaise(f) ==
    \/ NRows(f) < 2
    \/ \E i \in DOMAIN f.index : Column(f, "ds")[i][1] = "nat"

RECURSIVE SortedSeq(_)
SortedSeq(S) ==
    IF S = {} THEN <<>> ELSE <<Min(S)>> \o SortedSeq(S \ {Min(S)})

\* The rows [ds, y] of a normalized frame with parsed dates.
HistoryRows(f) ==
    [i \in DOMAIN f.index |-> [ds |-> Column(f, "ds")[i][2], y |-> Column(f, "y")[i][2]]]

Qualities == {"close", "off"}

Predict(f, days, quality) ==
    LET h == HistoryRows(f)
        dates == SortedSeq({h[i].ds : i \in DOMAIN h})
        shift == IF quality = "close" THEN 0 ELSE 5
        est(d) == h[Min({i \in DOMAIN h : h[i].ds = d})].y + shift
        last == dates[Len(dates)]
        row(d, v) == [ds |-> d, yhat |-> v, yhat_lower |-> v - 1, yhat_upper |-> v + 1]
    IN  [i \in 1..(Len(dates) + days) |->
            IF i <= Len(dates) THEN row(dates[i], est(dates[i]))
            ELSE row(last + (i - Len(dates)), est(last) + (i - Len(dates)))]

\* sort_values('ds') on anomaly rows (stable).
RECURSIVE SortByDs(_)
SortByDs(rows) ==
    IF rows = <<>> THEN <<>>
    ELSE LET m == Min({rows[i].ds : i \in DOMAIN rows})
         IN  SelectSeq(rows, LAMBDA r : r.ds = m)
             \o SortByDs(SelectSeq(rows, LAMBDA r : r.ds # m))

NoAnalysis ==
    [row_count |-> 0, forecast |-> <<>>, anomalies |-> NoAnomalies,
     metrics |-> ZeroMetrics, insights |-> NoInsights]

\* generate_forecast after predict: anomalies, metrics, insights, sorting.
Analyse(f, fc) ==
    LET h == HistoryRows(f)
        merged == Merge(h, fc, 1)
        anoms == detect_anomalies(fc, h)
    IN  [row_count |-> 0,
         forecast |-> fc,
         anomalies |-> [anoms EXCEPT !.rows = SortByDs(anoms.rows)],
         metrics |-> calculate_metrics([i \in DOMAIN merged |-> <<"num", merged[i].y>>],
                                       [i \in DOMAIN merged |-> <<"num", merged[i].yhat>>]),
         insights |-> generate_insights(fc, anoms, h)]

(***************************************************************************)
(* The service                                                             *)
(***************************************************************************)
Requests == {1, 2}

Routes == {"forecast", "report"}

FileNames == {"a.csv", "clean_a.csv"}

Horizons == {0, 1}

\* What clients upload: a good table of three rows, a good one of two, one
\* without a date column, one without a target column, one with a date that
\* does not parse.
Uploads ==
    {[header |-> <<"date", "sales">>,
      rows |-> <<<<<<"date", 1>>, <<"num", 10>>>>, <<<<"date", 2>>, <<"num", 11>>>>,
                 <<<<"date", 3>>, <<"num", 12>>>>>>],
     [header |-> <<"ds", "y">>,
      rows |-> <<<<<<"date", 1>>, <<"num", 20>>>>, <<<<"date", 2>>, <<"num", 21>>>>>>],
     [header |-> <<"when", "sales">>,
      rows |-> <<<<<<"date", 1>>, <<"num", 30>>>>>>],
     [header |-> <<"date", "label">>,
      rows |-> <<<<<<"date", 1>>, <<"txt", 1>>>>>>],
     [header |-> <<"date", "sales">>,
      rows |-> <<<<<<"txt", 2>>, <<"num", 5>>>>, <<<<"date", 2>>, <<"num", 6>>>>>>]}

\* file_location.  DATA_DIR is <backend>/data and the report route writes to
\* data/ under the working directory: one directory when the service is
\* started in backend/.
Path(route, filename) ==
    IF route = "report" THEN filename
    ELSE IF filename = "a.csv" THEN "clean_a.csv" ELSE "clean_clean_a.csv"

Paths == {Path(rt, fn) : rt \in Routes, fn \in FileNames}

NoResponse == [status |-> 0, detail |-> ""]

Http(status, detail) == [status |-> status, detail |-> detail]

SIdle ==
    /\ req = <<>>
    /\ pc = <<>>
    /\ loop = 0
    /\ fs = <<>>
    /\ local_df = <<>>
    /\ fitted = <<>>
    /\ analysis = <<>>
    /\ log = <<>>
    /\ response = <<>>

SInit ==
    /\ req \in [Requests -> [route : Routes, filename : FileNames,
                             upload : Uploads, days : Horizons]]
    /\ pc = [r \in Requests |-> "start"]
    /\ loop = 0
    /\ fs = [p \in Paths |-> NoFile]
    /\ local_df = [r \in Requests |-> NoFrame]
    /\ fitted = [r \in Requests |-> NoFrame]
    /\ analysis = [r \in Requests |-> NoAnalysis]
    /\ log = [r \in Requests |-> <<>>]
    /\ response = [r \in Requests |-> NoResponse]

file_location(r) == Path(req[r].route, req[r].filename)

\* The handler of r goes on to position p, having made the calls `calls`.
Goto(r, p, calls) ==
    /\ pc' = [pc EXCEPT ![r] = p]
    /\ log' = [log EXCEPT ![r] = @ \o calls]

\* The handler of r ends with an HTTP response and the event loop is free.
Respond(r, status, detail, calls) ==
    /\ Goto(r, "done", calls)
    /\ response' = [response EXCEPT ![r] = Http(status, detail)]
    /\ loop' = 0

Running(r, at) == loop = r /\ pc[r] = at

(***************************************************************************)
(* POST /forecast: get_forecast                                            *)
(***************************************************************************)
\* contents = await file.read(): the handler starts and waits for the bytes.
get_forecast_await(r) ==
    /\ loop = 0
    /\ pc[r] = "start"
    /\ req[r].route = "forecast"
    /\ Goto(r, "await_read", <<>>)
    /\ UNCHANGED <<req, loop, fs, local_df, fitted, analysis, response, not_s>>

\* The handler goes on with the bytes: pd.read_csv(io.BytesIO(contents)),
\* and a second time as latin1.
get_forecast_read_csv(r) ==
    /\ loop = 0
    /\ pc[r] = "await_read"
    /\ req[r].route = "forecast"
    /\ LET got == read_csv([exists |-> TRUE, header |-> req[r].upload.header,
                            rows |-> req[r].upload.rows])
       IN  IF got.ok
           THEN /\ Goto(r, "csv_read", <<"read_csv">>)
                /\ loop' = r
                /\ local_df' = [local_df EXCEPT ![r] = got.df]
                /\ UNCHANGED response
           ELSE /\ Respond(r, 400, "Invalid CSV file. Could not parse.",
                           <<"read_csv:error">>)
                /\ UNCHANGED local_df
    /\ UNCHANGED <<req, fs, fitted, analysis, not_s>>

\* df = normalize_columns(df), a ValueError answered with 400.
get_forecast_normalize(r) ==
    /\ Running(r, "csv_read")
    /\ LET got == normalize_columns(local_df[r])
       IN  IF got.ok
           THEN /\ Goto(r, "normalized", <<"normalize_columns">>)
                /\ local_df' = [local_df EXCEPT ![r] = got.df]
                /\ UNCHANGED <<loop, response>>
           ELSE /\ Respond(r, 400, got.error, <<"normalize_columns:ValueError">>)
                /\ UNCHANGED local_df
    /\ UNCHANGED <<req, fs, fitted, analysis, not_s>>

\* df.to_csv(file_location, index=False)
get_forecast_save(r) ==
    /\ Running(r, "normalized")
    /\ fs' = [fs EXCEPT ![file_location(r)] = to_csv(local_df[r])]
    /\ analysis' = [analysis EXCEPT ![r].row_count = NRows(local_df[r])]
    /\ Goto(r, "saved", <<"to_csv">>)
    /\ UNCHANGED <<req, loop, local_df, fitted, response, not_s>>

(***************************************************************************)
(* generate_forecast, called by both handlers                              *)
(***************************************************************************)
ErrorPrefix(r) ==
    IF req[r].route = "forecast" THEN "Forecasting error" ELSE "Reporting error"

\* Load data from a path (the forecast route; the report route passes its
\* frame and is past this step).
generate_forecast_load(r) ==
    /\ Running(r, "saved")
    /\ LET got == read_csv(fs[file_location(r)])
       IN  IF got.ok
           THEN /\ Goto(r, "loaded", <<"read_csv">>)
                /\ local_df' = [local_df EXCEPT ![r] = got.df]
                /\ UNCHANGED <<loop, response>>
           ELSE /\ IF got.error = "FileNotFoundError"
                   THEN Respond(r, 500, ErrorPrefix(r), <<"read_csv:error">>)
                   ELSE Respond(r, 400, "Failed to read CSV", <<"read_csv:error">>)
                /\ UNCHANGED local_df
    /\ UNCHANGED <<req, fs, fitted, analysis, not_s>>

\* Ensure required columns: normalize_columns when ds or y is missing.
generate_forecast_columns(r) ==
    /\ Running(r, "loaded")
    /\ IF {"ds", "y"} \subseteq Range(local_df[r].columns)
       THEN /\ Goto(r, "columns_ok", <<>>)
            /\ UNCHANGED <<loop, local_df, response>>
       ELSE LET got == normalize_columns(local_df[r])
            IN  IF got.ok
                THEN /\ Goto(r, "columns_ok", <<"normalize_columns">>)
                     /\ local_df' = [local_df EXCEPT ![r] = got.df]
                     /\ UNCHANGED <<loop, response>>
                ELSE /\ Respond(r, 400, "Input dataframe must contain 'ds' and 'y' columns.",
                                <<"normalize_columns:ValueError">>)
                     /\ UNCHANGED local_df
    /\ UNCHANGED <<req, fs, fitted, analysis, not_s>>

\* Convert ds to datetime, a failure answered with 400.
generate_forecast_dates(r) ==
    /\ Running(r, "columns_ok")
    /\ LET got == to_datetime(local_df[r])
       IN  IF got.ok
           THEN /\ Goto(r, "dates_parsed", <<"to_datetime">>)
                /\ local_df' = [local_df EXCEPT ![r] = got.df]
                /\ UNCHANGED <<loop, response>>
           ELSE /\ Respond(r, 400, "Could not parse 'ds' column as dates.",
                           <<"to_datetime:ValueError">>)
                /\ UNCHANGED local_df
    /\ UNCHANGED <<req, fs, fitted, analysis, not_s>>

FitOutcomes == {"ok", "ValueError", "Exception"}

\* m = Prophet(...); m.fit(df).  A ValueError is answered with 400, any
\* other exception with 500.
generate_forecast_fit(r) ==
    /\ Running(r, "dates_parsed")
    /\ fitted' = [fitted EXCEPT ![r] = local_df[r]]
    /\ \E outcome \in FitOutcomes :
          /\ FitMustRaise(local_df[r]) => outcome = "ValueError"
          /\ CASE outcome = "ok" ->
                    /\ Goto(r, "fitted", <<"fit">>)
                    /\ UNCHANGED <<loop, response>>
               [] outcome = "ValueError" ->
                    Respond(r, 400, "fit failed", <<"fit", "fit:ValueError">>)
               [] OTHER ->
                    Respond(r, 500, ErrorPrefix(r), <<"fit", "fit:Exception">>)
    /\ UNCHANGED <<req, fs, local_df, analysis, not_s>>

\* future = m.make_future_dataframe(periods=days); forecast = m.predict(future)
generate_forecast_predict(r) ==
    /\ Running(r, "fitted")
    /\ \E quality \in Qualities :
          analysis' = [analysis EXCEPT
                          ![r].forecast = Predict(local_df[r], req[r].days, quality)]
    /\ Goto(r, "predicted", <<"predict">>)
    /\ UNCHANGED <<req, loop, fs, local_df, fitted, response, not_s>>

\* detect_anomalies, calculate_metrics, generate_insights, sort_values
generate_forecast_analyse(r) ==
    /\ Running(r, "predicted")
    /\ LET got == Analyse(local_df[r], analysis[r].forecast)
       IN  IF got.insights.ok
           THEN /\ analysis' = [analysis EXCEPT
                                   ![r] = [got EXCEPT !.row_count = analysis[r].row_count]]
                /\ Goto(r, "analysed",
                        <<"detect_anomalies", "calculate_metrics", "generate_insights">>)
                /\ UNCHANGED <<loop, response>>
           ELSE /\ Respond(r, 500, ErrorPrefix(r),
                           <<"detect_anomalies", "calculate_metrics",
                             "generate_insights:IndexError">>)
                /\ UNCHANGED analysis
    /\ UNCHANGED <<req, fs, local_df, fitted, not_s>>

\* get_forecast returns the JSON result.
get_forecast_return(r) ==
    /\ Running(r, "analysed")
    /\ req[r].route = "forecast"
    /\ Respond(r, 200, "Analysis complete.", <<>>)
    /\ UNCHANGED <<req, fs, local_df, fitted, analysis, not_s>>

(***************************************************************************)
(* POST /report: get_forecast_report                                       *)
(***************************************************************************)
\* os.makedirs; open(file_location, "wb") creates or empties the file; then
\* await file.read() inside the with block.
get_forecast_report_open(r) ==
    /\ loop = 0
    /\ pc[r] = "start"
    /\ req[r].route = "report"
    /\ fs' = [fs EXCEPT ![file_location(r)] = EmptyFile]
    /\ Goto(r, "await_read", <<"open">>)
    /\ UNCHANGED <<req, loop, local_df, fitted, analysis, response, not_s>>

\* The handler goes on with the bytes: f.write(...), and the with block
\* closes the file.
get_forecast_report_write(r) ==
    /\ loop = 0
    /\ pc[r] = "await_read"
    /\ req[r].route = "report"
    /\ loop' = r
    /\ fs' = [fs EXCEPT ![file_location(r)] = WriteAtStart(@, req[r].upload)]
    /\ Goto(r, "written", <<"write">>)
    /\ UNCHANGED <<req, local_df, fitted, analysis, response, not_s>>

\* df = pd.read_csv(file_location); df = normalize_columns(df): a ValueError
\* is answered with 400 and its text, any other exception with 400 "Invalid
\* CSV file."
get_forecast_report_read(r) ==
    /\ Running(r, "written")
    /\ LET got == read_csv(fs[file_location(r)])
           norm == normalize_columns(got.df)
       IN  IF ~got.ok
           THEN /\ Respond(r, 400, "Invalid CSV file.", <<"read_csv:error">>)
                /\ UNCHANGED <<local_df, analysis>>
           ELSE IF ~norm.ok
           THEN /\ Respond(r, 400, norm.error,
                           <<"read_csv", "normalize_columns:ValueError">>)
                /\ UNCHANGED <<local_df, analysis>>
           ELSE /\ Goto(r, "loaded", <<"read_csv", "normalize_columns">>)
                /\ local_df' = [local_df EXCEPT ![r] = norm.df]
                /\ analysis' = [analysis EXCEPT ![r].row_count = NRows(norm.df)]
                /\ UNCHANGED <<loop, response>>
    /\ UNCHANGED <<req, fs, fitted, not_s>>

\* The parameters of generate_pdf_report and the keywords the route passes.
PdfParameters == {"forecast_df", "metrics", "insights", "anomalies"}

PdfKeywords == {"forecast_df", "metrics", "insights_data", "anomalies"}

\* Calling a function with keyword arguments: TypeError unless every keyword
\* is a parameter and every parameter (none has a default) is given.
CallBinds(parameters, keywords) == keywords = parameters

\* pdf_buffer = generate_pdf_report(...); return StreamingResponse(...).  An
\* exception other than ValueError is answered with 500.
get_forecast_report_pdf(r) ==
    /\ Running(r, "analysed")
    /\ req[r].route = "report"
    /\ IF CallBinds(PdfParameters, PdfKeywords)
       THEN Respond(r, 200, "application/pdf", <<"generate_pdf_report">>)
       ELSE Respond(r, 500, "Reporting error", <<"generate_pdf_report:TypeError">>)
    /\ UNCHANGED <<req, fs, local_df, fitted, analysis, not_s>>

SNext ==
    \E r \in Requests :
        \/ get_forecast_await(r)
        \/ get_forecast_read_csv(r)
        \/ get_forecast_normalize(r)
        \/ get_forecast_save(r)
        \/ generate_forecast_load(r)
        \/ generate_forecast_columns(r)
        \/ generate_forecast_dates(r)
        \/ generate_forecast_fit(r)
        \/ generate_forecast_predict(r)
        \/ generate_forecast_analyse(r)
        \/ get_forecast_return(r)
        \/ get_forecast_report_open(r)
        \/ get_forecast_report_write(r)
        \/ get_forecast_report_read(r)
        \/ get_forecast_report_pdf(r)

(***************************************************************************)
(* Specifications                                                          *)
(***************************************************************************)
InitNormalize == NInit /\ AIdle /\ MIdle /\ SIdle

SpecNormalize == InitNormalize /\ [][NNext]_vars

InitAnalysis == AInit /\ NIdle /\ MIdle /\ SIdle

SpecAnalysis == InitAnalysis /\ [][ANext]_vars

InitMetrics == MInit /\ NIdle /\ AIdle /\ SIdle

SpecMetrics == InitMetrics /\ [][MNext]_vars

Init == SInit /\ NIdle /\ AIdle /\ MIdle

Next == SNext

Spec == Init /\ [][Next]_vars

(***************************************************************************)
(* Claims about normalize_columns (checked under SpecNormalize)            *)
(***************************************************************************)
Normalized == nphase \in {"normalized", "renormalized"}

\* The positions of the columns other than the date column.
C7_Others == {i \in DOMAIN df.columns : df.columns[i] # out.date_col}

C7_First(S) == IF S = {} THEN NoCol ELSE df.columns[Min(S)]

\* The target column the four rules of the priority order select.
C7_Expected ==
    LET exact == {i \in C7_Others : df.columns[i] = "y"}
        lowered == {i \in C7_Others : Lower(df.columns[i]) = "y"}
        common == {i \in C7_Others : Lower(df.columns[i]) \in common_names}
        numeric == {i \in C7_Others : IsNumericDtype(df.data[i])}
    IN  IF exact # {} THEN "y"
        ELSE IF lowered # {} THEN C7_First(lowered)
        ELSE IF common # {} THEN C7_First(common)
        ELSE C7_First(numeric)

\* C7: once a date column is found, the target column is the one selected by
\* the priority order exact y, lower-cased y, first common value name, first
\* numeric-typed column (columns other than the date column, original
\* order), and the no-target-column error is raised exactly when no rule
\* selects a column.
C7_TargetPriority ==
    (Normalized /\ out.date_col # NoCol) =>
        /\ out.target_col = C7_Expected
        /\ (out.error = "no target column") <=> (C7_Expected = NoCol)
        /\ out.ok <=> (C7_Expected # NoCol)

\* A run where the numeric-type rule decides, past an earlier candidate that
\* is not numeric-typed.
C7_Witness ==
    /\ Normalized
    /\ out.ok
    /\ Lower(out.target_col) \notin common_names \cup {"y"}
    /\ \E i \in C7_Others :
          /\ i < ColIndex(df, out.target_col)
          /\ ~IsNumericDtype(df.data[i])

\* C8: normalize_columns applied to its own output succeeds and returns a
\* frame equal to that output.
C8_Idempotent ==
    /\ (nphase = "normalized" /\ out.ok) => normalize_columns(out.df).ok
    /\ (nphase = "renormalized") => (out2.ok /\ out2.df = out.df)

\* A second application to an output that kept some rows and dropped others.
C8_Witness ==
    /\ nphase = "renormalized"
    /\ NRows(out.df) >= 1
    /\ NRows(out.df) < NRows(df)

C9_Pre ==
    /\ "date" \in Range(df.columns)
    /\ "sales" \in Range(df.columns)
    /\ "ds" \notin Range(df.columns)
    /\ "y" \notin Range(df.columns)

\* Whether a value coerces to a number.
C9_Coerces(cell) == cell[1] \in {"num", "str"}

C9_Kept == {i \in DOMAIN df.index : C9_Coerces(Column(df, "sales")[i])}

\* The output has the columns ds and y, and its rows are the input's (date,
\* sales) rows whose sales value coerces, in order.
C9_Post ==
    /\ out.ok
    /\ out.df.columns = <<"ds", "y">>
    /\ NRows(out.df) = NRows(df) - Cardinality(DOMAIN df.index \ C9_Kept)
    /\ out.df.index = TakeRows(df.index, C9_Kept, 1)
    /\ out.df.data[1] = TakeRows(Column(df, "date"), C9_Kept, 1)
    /\ \A j \in DOMAIN out.df.data[2] :
          /\ out.df.data[2][j][1] = "num"
          /\ \E i \in C9_Kept :
                /\ df.index[i] = out.df.index[j]
                /\ out.df.data[2][j][2] = Column(df, "sales")[i][2]

\* C9 as stated: with columns date and sales and no column ds or y, whatever
\* the other columns, the output is the (date, sales) rows whose sales value
\* coerces to a number.
C9_AnyOtherColumns == (Normalized /\ C9_Pre) => C9_Post

\* No other column is preferred over date or sales by the detection rules.
C9_NotShadowed ==
    /\ \A i \in DOMAIN df.columns : Lower(df.columns[i]) # "y"
    /\ \A i \in DOMAIN df.columns :
          (i < ColIndex(df, "sales")) => Lower(df.columns[i]) \notin common_names
    /\ \A i \in DOMAIN df.columns :
          (i < ColIndex(df, "date")) => Lower(df.columns[i]) \notin DateNames

\* C9 (amended): the same, provided no column's lower-cased name is y, no
\* column before sales has a lower-cased common value name and no column
\* before date has a lower-cased date name.
C9_DateSales == (Normalized /\ C9_Pre /\ C9_NotShadowed) => C9_Post

\* A date/sales frame with a third column, of which a row is dropped and a
\* row is kept.
C9_Witness ==
    /\ Normalized
    /\ C9_Pre
    /\ C9_NotShadowed
    /\ Len(df.columns) >= 3
    /\ C9_Kept # {}
    /\ C9_Kept # DOMAIN df.index

(***************************************************************************)
(* Claims about detect_anomalies and generate_insights (SpecAnalysis)      *)
(***************************************************************************)
Detected == aphase \in {"detected", "reported"}

KindAt(i) == insights.insights[i].kind

\* trend_pct > 10, from the last historical value c and the last estimate f.
C1_StrongGrowth ==
    LET c == actuals[Len(actuals)].y
        f == forecast[Len(forecast)].yhat
    IN  IF c > 0 THEN (f - c) * 100 > 10 * c
        ELSE IF c < 0 THEN (f - c) * 100 < 10 * c
        ELSE f > c

C1_Pre ==
    /\ aphase = "reported"
    /\ insights.ok
    /\ C1_StrongGrowth
    /\ \E i \in DOMAIN anomalies.rows : anomalies.rows[i].severity_level = "High"

\* C1: with trend_pct > 10 and a High-severity anomaly, the first insight is
\* the trend insight, and the critical-volatility insight comes after it and
\* after the peak insight when there is one.
C1_InsightOrder ==
    C1_Pre =>
        /\ KindAt(1) = "trend"
        /\ \E i \in DOMAIN insights.insights :
              /\ KindAt(i) = "critical_volatility"
              /\ i > 1
              /\ \A j \in DOMAIN insights.insights : KindAt(j) = "peak" => j < i
        /\ (\E r \in Range(forecast) : \A a \in Range(actuals) : r.ds > a.ds)
              => \E j \in DOMAIN insights.insights : KindAt(j) = "peak"

\* Strong growth, a High-severity anomaly and a forecast past the history.
C1_Witness ==
    /\ C1_Pre
    /\ \E j \in DOMAIN insights.insights : KindAt(j) = "peak"
    /\ insights.insights[1].intensity = "Significant"
    /\ insights.insights[1].direction = "growth"

Flagged(t) == \E i \in DOMAIN anomalies.rows : anomalies.rows[i].ds = t

\* C2 as stated: a historical point whose value equals its estimate is never
\* flagged, whatever the interval bounds.
C2_NeverFlaggedAnyBounds ==
    Detected =>
        \A a \in Range(actuals) : \A r \in Range(forecast) :
            (a.ds = r.ds /\ a.y = r.yhat) => ~Flagged(a.ds)

\* C2 (amended): a historical point whose value equals its estimate is never
\* flagged when the interval contains the estimate (lower <= estimate <=
\* upper), whatever its width.
C2_NeverFlaggedBracketed ==
    Detected =>
        \A a \in Range(actuals) : \A r \in Range(forecast) :
            (a.ds = r.ds /\ a.y = r.yhat
               /\ r.yhat_lower <= r.yhat /\ r.yhat <= r.yhat_upper)
            => ~Flagged(a.ds)

\* A point on its estimate inside an interval of width zero, not flagged,
\* beside a point that is.
C2_Witness ==
    /\ Detected
    /\ \E a \in Range(actuals) : \E r \in Range(forecast) :
          /\ a.ds = r.ds /\ a.y = r.yhat
          /\ r.yhat_lower = r.yhat /\ r.yhat = r.yhat_upper
          /\ ~Flagged(a.ds)
    /\ anomalies.rows # <<>>

\* pct > c and pct <= c for pct = |y - yhat| / yhat * 100, as comparisons of
\* IEEE values: x/0 is inf for x > 0, 0/0 is NaN and compares false.
C3_PctGt(a, c) ==
    LET dev == IF a.y >= a.yhat THEN a.y - a.yhat ELSE a.yhat - a.y
    IN  IF a.yhat > 0 THEN 100 * dev > c * a.yhat
        ELSE IF a.yhat < 0 THEN 100 * dev < c * a.yhat
        ELSE dev > 0

C3_PctLe(a, c) ==
    LET dev == IF a.y >= a.yhat THEN a.y - a.yhat ELSE a.yhat - a.y
    IN  IF a.yhat > 0 THEN 100 * dev <= c * a.yhat
        ELSE IF a.yhat < 0 THEN 100 * dev >= c * a.yhat
        ELSE FALSE

C3_PctIsNaN(a) == a.yhat = 0 /\ a.y = 0

\* C3 as stated: High exactly when pct > 20, Medium exactly when
\* 10 < pct <= 20, Low exactly when pct <= 10.
C3_SeverityLevels ==
    Detected =>
        \A i \in DOMAIN anomalies.rows :
            LET a == anomalies.rows[i]
            IN  /\ (a.severity_level = "High") <=> C3_PctGt(a, 20)
                /\ (a.severity_level = "Medium") <=> (C3_PctGt(a, 10) /\ C3_PctLe(a, 20))
                /\ (a.severity_level = "Low") <=> C3_PctLe(a, 10)

\* C3 (amended): High exactly when pct > 20, Medium exactly when
\* 10 < pct <= 20, Low exactly when pct <= 10 or pct is not a number (actual
\* and estimate both 0).
C3_SeverityLevelsNaNLow ==
    Detected =>
        \A i \in DOMAIN anomalies.rows :
            LET a == anomalies.rows[i]
            IN  /\ (a.severity_level = "High") <=> C3_PctGt(a, 20)
                /\ (a.severity_level = "Medium") <=> (C3_PctGt(a, 10) /\ C3_PctLe(a, 20))
                /\ (a.severity_level = "Low") <=> (C3_PctLe(a, 10) \/ C3_PctIsNaN(a))

\* Two flagged points on the thresholds: pct = 20 is Medium, pct = 10 is Low.
C3_Witness ==
    /\ Detected
    /\ \E i, j \in DOMAIN anomalies.rows :
          /\ anomalies.rows[i].yhat = 20 /\ anomalies.rows[i].y = 24
          /\ anomalies.rows[i].severity_level = "Medium"
          /\ anomalies.rows[j].yhat = 20 /\ anomalies.rows[j].y = 22
          /\ anomalies.rows[j].severity_level = "Low"

\* The dates that occur in both inputs with the value outside the interval.
C4_Outside ==
    {t \in 1..MaxT :
        \E a \in Range(actuals) : \E r \in Range(forecast) :
            /\ a.ds = t /\ r.ds = t
            /\ (a.y < r.yhat_lower \/ a.y > r.yhat_upper)}

\* C4: the result has a row for date t exactly when t is in the history and
\* in the forecast with the value strictly outside the interval; dates
\* without a forecast row are left out; the result always has the anomaly
\* columns, also when it has no rows.
C4_AnomalySet ==
    Detected =>
        /\ {anomalies.rows[i].ds : i \in DOMAIN anomalies.rows} = C4_Outside
        /\ Len(anomalies.rows) = Cardinality(C4_Outside)
        /\ anomalies.columns = AnomalyColumns

\* A historical date without a forecast row beside a flagged date.
C4_Witness ==
    /\ Detected
    /\ \E a \in Range(actuals) : \A r \in Range(forecast) : r.ds # a.ds
    /\ Len(anomalies.rows) = 1

\* No point is flagged: the empty result with its columns.
C4_WitnessEmpty ==
    /\ Detected
    /\ actuals # <<>>
    /\ anomalies.rows = <<>>
    /\ anomalies.columns = AnomalyColumns

(***************************************************************************)
(* Claims about calculate_metrics (SpecMetrics)                            *)
(***************************************************************************)
\* A valid pair (neither value missing) whose actual value is 0.
C10_ZeroActual ==
    \E i \in DOMAIN y_true :
        /\ y_true[i] = <<"num", 0>>
        /\ y_pred[i][1] = "num"

\* C10: when a valid pair has actual value 0, MAPE is exactly 0.0, a finite
\* number, whatever the other pairs are.
C10_ZeroActualZeroMAPE ==
    (mphase = "calculated" /\ C10_ZeroActual) =>
        /\ metrics.MAPE.k = "fin"
        /\ metrics.MAPE.n = 0

\* A zero actual with a zero prediction (0/0) beside a pair with a finite
\* percentage error.
C10_Witness ==
    /\ mphase = "calculated"
    /\ \E i, j \in DOMAIN y_true :
          /\ y_true[i] = <<"num", 0>> /\ y_pred[i] = <<"num", 0>>
          /\ y_true[j] = <<"num", 4>> /\ y_pred[j] = <<"num", 1>>
    /\ metrics.MAPE.n = 0
    /\ metrics.MAE.n > 0

(***************************************************************************)
(* Claims about the service (Spec)                                         *)
(***************************************************************************)
\* The request's own upload, read and normalized.
OwnNormalized(r) ==
    normalize_columns(read_csv([exists |-> TRUE, header |-> req[r].upload.header,
                                rows |-> req[r].upload.rows]).df)

\* The upload has no date column, no target column, or a date that does not
\* parse in a row it keeps.
C5_Invalid(r) ==
    LET norm == OwnNormalized(r)
    IN  \/ norm.error \in {"no date column", "no target column"}
        \/ /\ norm.ok
           /\ \E i \in DOMAIN norm.df.index : norm.df.data[1][i][1] = "txt"

Called(r, name) == \E i \in DOMAIN log[r] : log[r][i] = name

CalledBefore(r, name, i) == \E j \in DOMAIN log[r] : j < i /\ log[r][j] = name

\* C5: fit and predict are invoked only after normalize_columns and
\* to_datetime have succeeded; a request whose upload has no date column, no
\* target column or an unparseable date never invokes fit or predict and
\* ends with an error response.
C5_FailFast ==
    \A r \in Requests :
        /\ \A i \in DOMAIN log[r] :
              log[r][i] \in {"fit", "predict"} =>
                  /\ CalledBefore(r, "normalize_columns", i)
                  /\ CalledBefore(r, "to_datetime", i)
        /\ (C5_Invalid(r) \/ Called(r, "normalize_columns:ValueError")
                          \/ Called(r, "to_datetime:ValueError")) =>
              /\ ~Called(r, "fit")
              /\ ~Called(r, "predict")
              /\ fitted[r] = NoFrame
              /\ pc[r] = "done" => response[r].status = 400
        /\ (Called(r, "normalize_columns:ValueError")
                \/ Called(r, "to_datetime:ValueError")) => pc[r] = "done"

\* A request refused for its dates and one refused for its columns, after
\* the first was normalized and the second was not.
C5_Witness ==
    \E r, q \in Requests :
        /\ r # q
        /\ Called(r, "to_datetime:ValueError")
        /\ response[r].status = 400
        /\ Called(q, "normalize_columns:ValueError")
        /\ response[q].status = 400

\* A request that went through validation and was fitted.
C5_WitnessFit ==
    \E r \in Requests : Called(r, "fit") /\ Called(r, "predict") /\ pc[r] = "done"

\* C6: the table a request fits is the table it uploaded (normalized, dates
\* parsed), whatever the other request does.
C6_Isolation ==
    \A r \in Requests :
        fitted[r] # NoFrame =>
            /\ OwnNormalized(r).ok
            /\ fitted[r].columns = <<"ds", "y">>
            /\ \A i \in DOMAIN fitted[r].index :
                  /\ i \in DOMAIN OwnNormalized(r).df.index
                  /\ fitted[r].data[1][i][2] = OwnNormalized(r).df.data[1][i][2]
                  /\ fitted[r].data[2][i] = OwnNormalized(r).df.data[2][i]
            /\ NRows(fitted[r]) = NRows(OwnNormalized(r).df)

\* The analysis pipeline of request r has succeeded: normalize_columns, fit,
\* predict, detect_anomalies, calculate_metrics and generate_insights have all
\* returned.
C11_PipelineSucceeded(r) ==
    /\ Called(r, "normalize_columns")
    /\ Called(r, "fit")
    /\ Called(r, "predict")
    /\ Called(r, "generate_insights")

\* C11: a report request whose analysis pipeline has succeeded hands the
\* forecast, metrics, insights and anomalies to generate_pdf_report and ends
\* with the document (200, application/pdf), not with an error response.
C11_ReportReturnsDocument ==
    \A r \in Requests :
        (req[r].route = "report" /\ pc[r] = "done" /\ C11_PipelineSucceeded(r)) =>
            /\ Called(r, "generate_pdf_report")
            /\ response[r] = Http(200, "application/pdf")

====
